---------------------------- MODULE Spec2Model ----------------------------
(***************************************************************************)
(* Model of src/base.py: the Lexer.gen_tokens scan loop and the Error      *)
(* detect/recover engine it calls on a lexeme no category accepts.         *)
(*                                                                         *)
(* A Python str is modelled as a sequence of one-character strings, so     *)
(* that indexing, slicing, strip and the Levenshtein table are computed    *)
(* character by character as the source does.  Positions in the lexeme     *)
(* list are Python's 0-based positions; lexemes[p + 1] is the lexeme at    *)
(* position p.  The alphabet is printable ASCII without whitespace (the    *)
(* lexemes come out of str.split()).                                       *)
(***************************************************************************)
EXTENDS Integers, Sequences, FiniteSets, TLC

VARIABLES text, lexemes, idx, tokens, pc, step

vars == <<text, lexemes, idx, tokens, pc, step>>

---------------------------------------------------------------------------
(* Token type names and the fixed token pattern sets.                      *)

TT_kw == "Keyword"
TT_lit == "Literal"
TT_id == "Identifier"
TT_sepr == "Seperator"
TT_op == "Operator"
TT_float_op == "Float operand"
TT_int_op == "Integer operand"

KEYWORDS ==
    { <<"i","f">>, <<"e","l","s","e">>, <<"w","h","i","l","e">>,
      <<"f","o","r">>, <<"r","e","t","u","r","n">>, <<"i","n","t">>,
      <<"f","l","o","a","t">>, <<"c","h","a","r">>,
      <<"c","l","a","s","s">>, <<"d","e","f">> }

OPERATORS ==
    { <<"+">>, <<"-">>, <<"*">>, <<"/">>, <<"=">>, <<"=","=">>, <<"!","=">>,
      <<"<">>, <<">">>, <<"<","=">>, <<">","=">> }

PUNCTUATIONS == { <<";">>, <<",">>, <<"(">>, <<")">>, <<"{">>, <<"}">> }

MAX_ID_LENGTH == 15
MAX_INT == 32767
MIN_INT == -32768

Token(name, value) == [name |-> name, value |-> value]

---------------------------------------------------------------------------
(* Character classes of the regular expressions and of str.isdigit.        *)

LowerCase ==
    { "a","b","c","d","e","f","g","h","i","j","k","l","m",
      "n","o","p","q","r","s","t","u","v","w","x","y","z" }

UpperCase ==
    { "A","B","C","D","E","F","G","H","I","J","K","L","M",
      "N","O","P","Q","R","S","T","U","V","W","X","Y","Z" }

Letters == LowerCase \cup UpperCase

Digits == { "0","1","2","3","4","5","6","7","8","9" }

DigitVal ==
    "0" :> 0 @@ "1" :> 1 @@ "2" :> 2 @@ "3" :> 3 @@ "4" :> 4 @@
    "5" :> 5 @@ "6" :> 6 @@ "7" :> 7 @@ "8" :> 8 @@ "9" :> 9

DQ == "\""
SQ == "'"

Min2(a, b) == IF a <= b THEN a ELSE b

Chars(s) == { s[k] : k \in 1..Len(s) }

Count(s, c) == Cardinality({ k \in 1..Len(s) : s[k] = c })

startswith(s, c) == Len(s) >= 1 /\ s[1] = c

endswith(s, c) == Len(s) >= 1 /\ s[Len(s)] = c

\* str.strip(c): drop every leading and every trailing c
strip(s, c) ==
    LET keep == { k \in 1..Len(s) : s[k] # c }
    IN  IF keep = {} THEN << >>
        ELSE LET lo == CHOOSE k \in keep : \A m \in keep : k <= m
                 hi == CHOOSE k \in keep : \A m \in keep : k >= m
             IN  SubSeq(s, lo, hi)

\* str.isdigit on ASCII text: non-empty and digits only
isdigit(s) == Len(s) >= 1 /\ \A k \in 1..Len(s) : s[k] \in Digits

\* re.match(r'^[A-Za-z_][A-Za-z0-9_]*$', s)
MatchesIdPattern(s) ==
    /\ Len(s) >= 1
    /\ s[1] \in Letters \cup {"_"}
    /\ \A k \in 2..Len(s) : s[k] \in Letters \cup Digits \cup {"_"}

---------------------------------------------------------------------------
(* Numeric parsing: int(), float() and the values they produce.            *)

IsSign(c) == c \in {"+", "-"}

Unsigned(s) == IF Len(s) >= 1 /\ IsSign(s[1]) THEN Tail(s) ELSE s

IsNegative(s) == Len(s) >= 1 /\ s[1] = "-"

\* a run of digits in which single underscores may separate digits
IsDigitGroup(s) ==
    /\ Len(s) >= 1
    /\ s[1] \in Digits
    /\ s[Len(s)] \in Digits
    /\ \A k \in 1..Len(s) : s[k] \in Digits \cup {"_"}
    /\ \A k \in 1..(Len(s) - 1) : ~(s[k] = "_" /\ s[k + 1] = "_")

DigitsOf(s) == SelectSeq(s, LAMBDA c : c \in Digits)

RECURSIVE NatVal(_)
NatVal(ds) ==
    IF ds = << >> THEN 0
    ELSE NatVal(SubSeq(ds, 1, Len(ds) - 1)) * 10 + DigitVal[ds[Len(ds)]]

RECURSIVE StripLeadingZeros(_)
StripLeadingZeros(ds) ==
    IF ds # << >> /\ ds[1] = "0" THEN StripLeadingZeros(Tail(ds)) ELSE ds

RECURSIVE StripTrailingZeros(_)
StripTrailingZeros(ds) ==
    IF ds # << >> /\ ds[Len(ds)] = "0"
    THEN StripTrailingZeros(SubSeq(ds, 1, Len(ds) - 1))
    ELSE ds

\* int(num) does not raise
is_integer(num) == IsDigitGroup(Unsigned(num))

\* int(num), for num accepted by int()
IntVal(num) ==
    LET n == NatVal(DigitsOf(Unsigned(num)))
    IN  IF IsNegative(num) THEN -n ELSE n

FirstIndexOf(s, cs) ==
    IF \E k \in 1..Len(s) : s[k] \in cs
    THEN CHOOSE k \in 1..Len(s) : s[k] \in cs /\ \A m \in 1..(k - 1) : s[m] \notin cs
    ELSE 0

\* the parts of a float literal: sign, mantissa text, exponent text
FloatMantissa(num) ==
    LET u == Unsigned(num)
        e == FirstIndexOf(u, {"e", "E"})
    IN  IF e = 0 THEN u ELSE SubSeq(u, 1, e - 1)

FloatHasExponent(num) == FirstIndexOf(Unsigned(num), {"e", "E"}) # 0

FloatExponent(num) ==
    LET u == Unsigned(num)
        e == FirstIndexOf(u, {"e", "E"})
    IN  SubSeq(u, e + 1, Len(u))

\* float(num) does not raise, for a num that contains a decimal point
FloatParsesDotted(num) ==
    LET m == FloatMantissa(num)
        d == FirstIndexOf(m, {"."})
        a == SubSeq(m, 1, d - 1)
        b == SubSeq(m, d + 1, Len(m))
    IN  /\ d # 0
        /\ Count(m, ".") = 1
        /\ a = << >> \/ IsDigitGroup(a)
        /\ b = << >> \/ IsDigitGroup(b)
        /\ ~(a = << >> /\ b = << >>)
        /\ FloatHasExponent(num) => is_integer(FloatExponent(num))

\* try: float(num); return '.' in num   except ValueError: return False
is_float(num) == "." \in Chars(num) /\ FloatParsesDotted(num)

\* float(num) as sign, decimal mantissa without trailing zeros, power of ten
FloatVal(num) ==
    LET m   == FloatMantissa(num)
        d   == FirstIndexOf(m, {"."})
        a   == DigitsOf(SubSeq(m, 1, d - 1))
        b   == DigitsOf(SubSeq(m, d + 1, Len(m)))
        x   == IF FloatHasExponent(num) THEN IntVal(FloatExponent(num)) ELSE 0
        all == StripLeadingZeros(a \o b)
        sig == StripTrailingZeros(all)
    IN  IF sig = << >>
        THEN [neg |-> IsNegative(num), mant |-> 0, exp |-> 0]
        ELSE [neg |-> IsNegative(num), mant |-> NatVal(sig),
              exp |-> x - Len(b) + (Len(all) - Len(sig))]

---------------------------------------------------------------------------
(* Lexer predicates.                                                       *)

RECURSIVE LevRow(_, _, _, _, _)
\* lines 146-152 for one i: cur holds dp[i][0 .. Len(cur)-1], prev is dp[i-1]
LevRow(a, b, i, prev, cur) ==
    IF Len(cur) = Len(b) + 1 THEN cur
    ELSE LET j    == Len(cur)
             cost == IF a[i] = b[j] THEN 0 ELSE 1
             v    == Min2(Min2(prev[j + 1] + 1, cur[j] + 1), prev[j] + cost)
         IN  LevRow(a, b, i, prev, Append(cur, v))

RECURSIVE LevTable(_, _, _)
\* dp holds the rows dp[0 .. Len(dp)-1] of the table; row i starts with i
LevTable(a, b, dp) ==
    IF Len(dp) = Len(a) + 1 THEN dp
    ELSE LET i == Len(dp)
         IN  LevTable(a, b, Append(dp, LevRow(a, b, i, dp[i], <<i>>)))

\* dp[m][n] of the table whose row 0 is 0 .. n
levenshtein(a, b) ==
    LevTable(a, b, << [j \in 1..(Len(b) + 1) |-> j - 1] >>)[Len(a) + 1][Len(b) + 1]

\* variant: the distance bound is off by one
is_similar_to_keyword_off_by_one(lexeme, max_distance) ==
    \E kw \in KEYWORDS : levenshtein(lexeme, kw) <= max_distance + 1

is_similar_to_keyword(lexeme, max_distance) ==
    \E kw \in KEYWORDS : levenshtein(lexeme, kw) <= max_distance

is_id_too_long(error) == Len(error) >= 15

\* variant: the length check is left out
is_identifier_no_length_check(s) ==
    IF MatchesIdPattern(s)
    THEN /\ s \notin KEYWORDS
         /\ ~is_similar_to_keyword(s, 1)
    ELSE FALSE

is_identifier(s) ==
    IF MatchesIdPattern(s)
    THEN /\ s \notin KEYWORDS
         /\ ~is_similar_to_keyword(s, 1)
         /\ ~is_id_too_long(s)
    ELSE FALSE

\* re.match(r'^([A-Za-z_][A-Za-z0-9_]*)\((.*)\)$', lexeme) is not None
is_func_call(lexeme) ==
    LET p == FirstIndexOf(lexeme, {"("})
    IN  /\ p >= 2
        /\ MatchesIdPattern(SubSeq(lexeme, 1, p - 1))
        /\ lexeme[Len(lexeme)] = ")"
        /\ Len(lexeme) >= p + 1

\* match.groups() of a lexeme accepted by is_func_call
FuncName(lexeme) == SubSeq(lexeme, 1, FirstIndexOf(lexeme, {"("}) - 1)

FuncParams(lexeme) ==
    SubSeq(lexeme, FirstIndexOf(lexeme, {"("}) + 1, Len(lexeme) - 1)

---------------------------------------------------------------------------
(* str.strip() and str.split() with no argument.                           *)

Whitespace == { " ", "\t", "\n", "\r", "\f" }

StripWhitespace(s) ==
    LET keep == { k \in 1..Len(s) : s[k] \notin Whitespace }
    IN  IF keep = {} THEN << >>
        ELSE LET lo == CHOOSE k \in keep : \A m \in keep : k <= m
                 hi == CHOOSE k \in keep : \A m \in keep : k >= m
             IN  SubSeq(s, lo, hi)

\* the positions where a maximal run of non-whitespace starts, and where the
\* run starting at k ends
LexemeStarts(s) ==
    { k \in 1..Len(s) :
        s[k] \notin Whitespace /\ (k = 1 \/ s[k - 1] \in Whitespace) }

LexemeEnd(s, k) ==
    CHOOSE e \in k..Len(s) :
        /\ \A m \in k..e : s[m] \notin Whitespace
        /\ e = Len(s) \/ s[e + 1] \in Whitespace

split(s) ==
    LET starts == LexemeStarts(s)
        nth(n) == CHOOSE k \in starts :
                      Cardinality({ m \in starts : m < k }) = n - 1
    IN  [n \in 1..Cardinality(starts) |-> SubSeq(s, nth(n), LexemeEnd(s, nth(n)))]

---------------------------------------------------------------------------
(* class Error: limits, error predicates, detect and recover.              *)

RECURSIVE Pow10(_)
Pow10(n) == IF n = 0 THEN 1 ELSE 10 * Pow10(n - 1)

RECURSIVE NumDigits(_)
NumDigits(n) == IF n < 10 THEN 1 ELSE 1 + NumDigits(n \div 10)

\* float(error) < MIN_FLOAT or float(error) > MAX_FLOAT, for the float value
\* v = mant * 10^exp.  MAX_FLOAT is the numpy.float32 maximum
\* 3.4028234663852886e38, so a value of magnitude 10^39 or more is outside,
\* one below 10^38 is inside, and in between the leading nine digits decide.
\* (gen_tokens never brings a float to the error path: line 90 emits it.)
FloatExceeds(v) ==
    IF v.mant = 0 THEN FALSE
    ELSE LET n     == NumDigits(v.mant)
             order == n + v.exp
             lead9 == IF n <= 9 THEN v.mant * Pow10(9 - n)
                      ELSE v.mant \div Pow10(n - 9)
         IN  IF order > 39 THEN TRUE
             ELSE IF order < 39 THEN FALSE
             ELSE lead9 >= 340282347

\* int(error) < MIN_INT or int(error) > MAX_INT, on Python's unbounded int
IntExceeds(error) ==
    LET sig == StripLeadingZeros(DigitsOf(Unsigned(error)))
    IN  IF Len(sig) > 5 THEN TRUE
        ELSE IntVal(error) < MIN_INT \/ IntVal(error) > MAX_INT

Err_is_keyword_invalid(word) == word \notin KEYWORDS

Err_is_id_too_long(error) ==
    LET is_identifier_syntax ==
            MatchesIdPattern(error) /\ (is_similar_to_keyword(error, 1) = FALSE)
    IN  is_identifier_syntax /\ Len(error) >= MAX_ID_LENGTH

Err_is_num_exceeding_length(error) ==
    IF is_float(error) THEN FloatExceeds(FloatVal(error))
    ELSE IF is_integer(error) THEN IntExceeds(error)
    ELSE FALSE

\* string.ascii_letters + string.punctuation without '.' + whitespace: on
\* ASCII text, every character that is neither a digit nor '.'
IsInvalidNumChar(c) == c \notin Digits /\ c # "."

Err_is_num_ill_formed(error) ==
    IF ~(\E k \in 1..Len(error) : error[k] \in Digits) THEN FALSE
    ELSE \E k \in 1..Len(error) :
            \/ IsInvalidNumChar(error[k])
            \/ Count(SubSeq(error, 1, k), ".") = 2

Err_is_string_ill_formed(error) ==
    LET is_string == error[1] \in {DQ, SQ} \/ error[Len(error)] \in {DQ, SQ}
    IN  IF is_string
        THEN Len(error) < 2 \/ error[1] # error[Len(error)]
        ELSE FALSE

Err_is_other_error(lexeme) ==
    \/ Err_is_id_too_long(lexeme)
    \/ Err_is_num_exceeding_length(lexeme)
    \/ Err_is_num_ill_formed(lexeme)

ET_none == ""
ET_id_too_long == "Identifier exceeds 15 characters"
ET_num_range == "Numeric type exceeds defined range"
ET_string == "Ill-formed string literal"
ET_num_ill_formed == "Ill-formed numeric type"

detect(error) ==
    IF Err_is_id_too_long(error) THEN ET_id_too_long
    ELSE IF Err_is_num_exceeding_length(error) THEN ET_num_range
    ELSE IF Err_is_string_ill_formed(error) THEN ET_string
    ELSE IF Err_is_num_ill_formed(error) THEN ET_num_ill_formed
    ELSE ET_none

\* the three shapes of recover's return value
RNone == [kind |-> "None"]
RIndex(i) == [kind |-> "index", i |-> i]
RStr(s) == [kind |-> "str", s |-> s]

\* lexemes.index(lexeme): 0-based position of the first equal element
ListIndex(ls, x) == (CHOOSE k \in 1..Len(ls) :
                        ls[k] = x /\ \A m \in 1..(k - 1) : ls[m] # x) - 1

ListCount(ls, x) == Cardinality({ k \in 1..Len(ls) : ls[k] = x })

\* lines 215-224: panic mode
recover_panic(lexeme, ls) ==
    IF ListCount(ls, <<";">>) > 1
    THEN LET start_index == ListIndex(ls, lexeme)
             hits == { i \in (start_index + 1)..(Len(ls) - 1) :
                          ls[i + 1] = <<";">> /\ i + 1 < Len(ls) }
         IN  IF hits = {} THEN RNone
             ELSE RIndex(CHOOSE i \in hits : \A m \in hits : i <= m)
    ELSE RNone

\* lines 229-241: quote repair
recover_string(lexeme) ==
    LET quote_char == IF lexeme[1] = DQ \/ lexeme[Len(lexeme)] = DQ THEN DQ ELSE SQ
        opened == IF lexeme[1] # quote_char THEN <<quote_char>> \o lexeme ELSE lexeme
    IN  IF opened[Len(opened)] # quote_char THEN Append(opened, quote_char) ELSE opened

shared_chars(a, b) == Cardinality(Chars(a) \cap Chars(b))

\* lines 244-284: keyword correction.  The loop keeps the first keyword, in
\* the iteration order of the set KEYWORDS, that reaches the highest shared
\* count; that order changes from run to run, so any keyword with the
\* highest count may be the one kept.
recover_keyword(lexeme) ==
    LET highest_shared ==
            CHOOSE n \in 0..Len(lexeme) :
                /\ \E kw \in KEYWORDS : shared_chars(lexeme, kw) = n
                /\ \A kw \in KEYWORDS : shared_chars(lexeme, kw) <= n
        candidates == { kw \in KEYWORDS : shared_chars(lexeme, kw) = highest_shared }
    IN  { IF Len(lexeme) <= Len(closest)
          THEN (IF highest_shared >= 2 THEN closest ELSE lexeme)
          ELSE closest : closest \in candidates }

\* every value recover(lexeme, lexemes) can return
recover(lexeme, ls) ==
    IF Err_is_other_error(lexeme)
    THEN { recover_panic(lexeme, ls) }
    ELSE IF Err_is_string_ill_formed(lexeme) THEN { RStr(recover_string(lexeme)) }
    ELSE IF Err_is_keyword_invalid(lexeme)
         THEN { RStr(s) : s \in recover_keyword(lexeme) }
    ELSE { RStr(lexeme) }

---------------------------------------------------------------------------
(* Input texts.  The numbers in them have at most nine digits, so that     *)
(* int() and float() values stay within the integers TLC computes with.    *)

MaxLexemes == 4

\* lexemes that fill the tail of an input text
CoreLexemes ==
    { <<";">>, <<"x">>, <<"1","a">>, <<"\"","a","b">> }

\* lexemes that open an input text
HeadLexemes ==
    { <<"i","f">>, <<"c","l","a","s","s">>, <<"w","h","i","l","e">>, <<"x">>,
      <<"t","e","h">>, <<"c","a","l","s","s">>,
      <<"c","o","u","n","t","_","1">>, <<"_">>, <<"w","h","i","l">>,
      <<"i","f","f">>, <<"c","l","a","s">>,
      <<"a","b","c","d","e","f","g","h","i","j","k","l","m","n","o">>,
      <<"a","b","c","d","e","f","g","h","i","j","k","l","m","n">>,
      <<"a","b","c","d","e","f","g","h","i","j","k","l","m","n","o","1">>,
      <<"=">>, <<"=","=">>, <<">","=">>, <<";">>, <<"(">>, <<"{">>, <<"5">>,
      <<"0","0","7">>, <<"3","2","7","6","7">>, <<"3","2","7","6","8">>,
      <<"9","9","9","9","9">>, <<"1",".","5">>, <<"-","1",".","5">>,
      <<".","5">>, <<"5",".">>, <<"1","_","0",".","5">>,
      <<"1",".","5","e","4","0">>, <<"-","2",".","e","3","9">>,
      <<"3",".","4","0","2","8","2","3","5","e","3","8">>, <<"0",".","0">>,
      <<"1","a">>, <<"1",".","2",".","2">>, <<"1",".","0","2","^","2">>,
      <<"1","2","$">>, <<"-","5">>, <<"+","7">>, <<"-","9","9","9","9","9">>,
      <<"1","e","5">>, <<"\"","a","b","c","\"">>, <<"\"","a","b","c">>,
      <<"a","b","c","\"">>, <<"'","a","b","c","'">>, <<"'","a","b">>,
      <<"'">>, <<"\"">>, <<"\"","a","1">>, <<"'","a","\"">>,
      <<"\"","1","\"">>, <<"$">>, <<"$","$","$","$">>, <<"@","x">>,
      <<"f","(">>, <<"x",")">>, <<"(","x",")">>, <<"f","(","1",")">>,
      <<"f","(","9","9","9","9","9",")">>, <<"i","f","(","x",")">>,
      <<"f","(","\"","a","\"",")">>, <<"f","(","x",",","y",")">>,
      <<"f","(",")">>, <<"f","(","1",".","5",")">>, <<"f","(","i","f",")">>,
      <<"f","(","x",")">>, <<"f","(","a",")","(","b",")">>,
      <<"w","h","i","l","(","1",")">>,
      <<"a","b","c","d","e","f","g","h","i","j","k","l","m","n","o","(","y",")">>,
      <<"f","(","\"",")">>, <<"f","(","-","3",")">>,
      <<"f","(","\"","a",")">> }

RECURSIVE SeqsUpTo(_, _)
SeqsUpTo(S, n) ==
    IF n = 0 THEN { << >> }
    ELSE LET shorter == SeqsUpTo(S, n - 1)
         IN  shorter \cup { Append(s, x) : s \in shorter, x \in S }

RECURSIVE Join(_)
\* ' '.join(ls)
Join(ls) ==
    IF ls = << >> THEN << >>
    ELSE IF Len(ls) = 1 THEN ls[1]
    ELSE ls[1] \o <<" ">> \o Join(Tail(ls))

\* a head lexeme followed by up to MaxLexemes - 2 core lexemes, the texts of
\* up to MaxLexemes core lexemes, and texts with surrounding and repeated
\* whitespace
Texts ==
    LET tails == SeqsUpTo(CoreLexemes, MaxLexemes - 2)
    IN  { Join(<<h>> \o t) : h \in HeadLexemes, t \in tails }
        \cup { Join(t) : t \in SeqsUpTo(CoreLexemes, MaxLexemes) }
        \cup { <<" ">> \o h \o <<" ", "\t">> \o c \o <<"\n">> :
                  h \in CoreLexemes, c \in CoreLexemes }

---------------------------------------------------------------------------
(* Lexer.gen_tokens as a state machine: one action for the split, one for  *)
(* each branch of the loop body, one for the return.                       *)

NoStep == [branch |-> "none", pos |-> -1, error_type |-> ET_none, corrected |-> RNone]

Step(branch) == [branch |-> branch, pos |-> idx, error_type |-> ET_none, corrected |-> RNone]

\* the lexeme the for loop is at
Cur == lexemes[idx + 1]

InLoop == pc = "scan" /\ idx < Len(lexemes)

\* which branch of the if/elif chain of lines 49-94 takes the lexeme
Branch(lexeme) ==
    IF is_func_call(lexeme) THEN "func_call"
    ELSE IF lexeme \in KEYWORDS THEN "keyword"
    ELSE IF is_identifier(lexeme) THEN "identifier"
    ELSE IF lexeme \in OPERATORS THEN "operator"
    ELSE IF lexeme \in PUNCTUATIONS THEN "punctuation"
    ELSE IF isdigit(lexeme) THEN "integer"
    ELSE IF is_float(lexeme) THEN "float"
    ELSE IF startswith(lexeme, DQ) /\ endswith(lexeme, DQ) THEN "literal"
    ELSE "error"

\* variant: the argument text is taken as an identifier without asking
\* is_identifier
ParamTokens_any_identifier(params) ==
    IF startswith(params, DQ) /\ endswith(params, DQ)
    THEN << Token(TT_lit, strip(params, DQ)) >>
    ELSE IF isdigit(params) THEN << Token(TT_int_op, IntVal(params)) >>
    ELSE IF is_float(params) THEN << Token(TT_float_op, FloatVal(params)) >>
    ELSE << Token(TT_id, params) >>

\* lines 68-77: the token for the argument text of a function call, if any
ParamTokens(params) ==
    IF startswith(params, DQ) /\ endswith(params, DQ)
    THEN << Token(TT_lit, strip(params, DQ)) >>
    ELSE IF isdigit(params) THEN << Token(TT_int_op, IntVal(params)) >>
    ELSE IF is_float(params) THEN << Token(TT_float_op, FloatVal(params)) >>
    ELSE IF is_identifier(params) THEN << Token(TT_id, params) >>
    ELSE << >>

Init ==
    /\ text \in Texts
    /\ lexemes = << >>
    /\ idx = 0
    /\ tokens = << >>
    /\ pc = "start"
    /\ step = NoStep

\* lines 43-46
SplitText ==
    /\ pc = "start"
    /\ lexemes' = split(StripWhitespace(text))
    /\ tokens' = << >>
    /\ idx' = 0
    /\ pc' = "scan"
    /\ UNCHANGED <<text, step>>

\* the loop body appends new and moves to the next lexeme
Emit(branch, new) ==
    /\ tokens' = tokens \o new
    /\ idx' = idx + 1
    /\ step' = Step(branch)
    /\ UNCHANGED <<text, lexemes, pc>>

\* lines 49-79
ScanFuncCall ==
    /\ InLoop
    /\ Branch(Cur) = "func_call"
    /\ Emit("func_call",
            << Token(TT_id, FuncName(Cur)), Token(TT_sepr, <<"(">>) >>
            \o ParamTokens(FuncParams(Cur))
            \o << Token(TT_sepr, <<")">>) >>)

\* lines 80-81
ScanKeyword ==
    /\ InLoop
    /\ Branch(Cur) = "keyword"
    /\ Emit("keyword", << Token(TT_kw, Cur) >>)

\* lines 82-83
ScanIdentifier ==
    /\ InLoop
    /\ Branch(Cur) = "identifier"
    /\ Emit("identifier", << Token(TT_id, Cur) >>)

\* lines 84-85
ScanOperator ==
    /\ InLoop
    /\ Branch(Cur) = "operator"
    /\ Emit("operator", << Token(TT_op, Cur) >>)

\* lines 86-87
ScanPunctuation ==
    /\ InLoop
    /\ Branch(Cur) = "punctuation"
    /\ Emit("punctuation", << Token(TT_sepr, Cur) >>)

\* lines 88-89
ScanInteger ==
    /\ InLoop
    /\ Branch(Cur) = "integer"
    /\ Emit("integer", << Token(TT_int_op, IntVal(Cur)) >>)

\* lines 90-91
ScanFloat ==
    /\ InLoop
    /\ Branch(Cur) = "float"
    /\ Emit("float", << Token(TT_float_op, FloatVal(Cur)) >>)

\* lines 92-93
ScanLiteral ==
    /\ InLoop
    /\ Branch(Cur) = "literal"
    /\ Emit("literal", << Token(TT_lit, strip(Cur, DQ)) >>)

\* lines 94-111.  None passes; anything else is used as a list index in
\* lexemes[corrected_lexeme]: an int rebinds the loop variable only, a str
\* raises TypeError, and the two branches after it are never reached.
ScanError ==
    /\ InLoop
    /\ Branch(Cur) = "error"
    /\ \E corrected_lexeme \in recover(Cur, lexemes) :
          /\ step' = [branch |-> "error", pos |-> idx,
                      error_type |-> detect(Cur),
                      corrected |-> corrected_lexeme]
          /\ IF corrected_lexeme.kind = "str"
             THEN /\ pc' = "raised"
                  /\ UNCHANGED <<idx, tokens>>
             ELSE /\ idx' = idx + 1
                  /\ UNCHANGED <<pc, tokens>>
    /\ UNCHANGED <<text, lexemes>>

\* line 113
Return ==
    /\ pc = "scan"
    /\ idx = Len(lexemes)
    /\ pc' = "done"
    /\ UNCHANGED <<text, lexemes, idx, tokens, step>>

Next ==
    \/ SplitText
    \/ ScanFuncCall
    \/ ScanKeyword
    \/ ScanIdentifier
    \/ ScanOperator
    \/ ScanPunctuation
    \/ ScanInteger
    \/ ScanFloat
    \/ ScanLiteral
    \/ ScanError
    \/ Return

Spec == Init /\ [][Next]_vars

TypeOK ==
    /\ pc \in {"start", "scan", "done", "raised"}
    /\ idx \in 0..Len(lexemes)

---------------------------------------------------------------------------
(* Vocabulary of the properties.                                           *)

\* the step just taken was the error path at position step.pos
OnErrorPath == step.branch = "error"

\* the lexeme the last step looked at
StepLexeme == lexemes[step.pos + 1]

RemoveAt(s, k) == SubSeq(s, 1, k - 1) \o SubSeq(s, k + 1, Len(s))

\* a and b are at most one insertion, deletion or substitution apart
WithinOneEdit(a, b) ==
    \/ a = b
    \/ Len(a) = Len(b) /\ Cardinality({ k \in 1..Len(a) : a[k] # b[k] }) = 1
    \/ Len(a) = Len(b) + 1 /\ \E k \in 1..Len(a) : RemoveAt(a, k) = b
    \/ Len(b) = Len(a) + 1 /\ \E k \in 1..Len(b) : RemoveAt(b, k) = a

\* what the documentation asks of an identifier
AcceptableIdentifier(s) ==
    /\ s \notin KEYWORDS
    /\ \A kw \in KEYWORDS : ~WithinOneEdit(s, kw)
    /\ Len(s) < MAX_ID_LENGTH

\* identifier "(" arguments ")" as a whole-string pattern
FuncCallShape(s) ==
    \E n \in 1..(Len(s) - 2) :
        /\ MatchesIdPattern(SubSeq(s, 1, n))
        /\ s[n + 1] = "("
        /\ s[Len(s)] = ")"

ShapeName(s) ==
    LET n == CHOOSE n \in 1..(Len(s) - 2) :
                 MatchesIdPattern(SubSeq(s, 1, n)) /\ s[n + 1] = "("
    IN  SubSeq(s, 1, n)

ShapeArgs(s) == SubSeq(s, Len(ShapeName(s)) + 2, Len(s) - 1)

IsQuoted(s) == startswith(s, DQ) /\ endswith(s, DQ)

\* the token is the parameter token of the argument text args
IsParamTokenFor(tok, args) ==
    \/ tok.name = TT_lit /\ IsQuoted(args) /\ tok.value = strip(args, DQ)
    \/ tok.name = TT_int_op /\ isdigit(args) /\ tok.value = IntVal(args)
    \/ tok.name = TT_float_op /\ is_float(args) /\ tok.value = FloatVal(args)
    \/ tok.name = TT_id /\ is_identifier(args) /\ tok.value = args

NoParamType(args) ==
    ~IsQuoted(args) /\ ~isdigit(args) /\ ~is_float(args) /\ ~is_identifier(args)

\* the first semicolon strictly after position k that is not the last lexeme
PanicTarget(ls, k) ==
    LET later == { j \in (k + 1)..(Len(ls) - 2) : ls[j + 1] = <<";">> }
    IN  IF ListCount(ls, <<";">>) > 1 /\ later # {}
        THEN RIndex(CHOOSE j \in later : \A m \in later : j <= m)
        ELSE RNone

CalssX == <<"c","a","l","s","s"," ","x">>
Calss == <<"c","a","l","s","s">>
Class == <<"c","l","a","s","s">>

---------------------------------------------------------------------------
(* Properties.                                                             *)

\* C1: gen_tokens runs to completion on every input: no exception escapes
\* it, whatever recover returns.
C1_NoExceptionEscapes == pc # "raised"

\* C2: when recover returns the semicolon index j, the scan resumes at
\* position j + 1.
C2_ResumesAfterSemicolon ==
    (OnErrorPath /\ step.corrected.kind = "index")
        => idx = step.corrected.i + 1

\* C3: a lexeme repaired as an ill-formed string is re-classified and yields
\* exactly one Literal token whose value is the text between the quotes, and
\* the scan advances to the next lexeme.
C3_RepairedStringEmitsLiteral ==
    (OnErrorPath /\ step.corrected.kind = "str"
                 /\ Err_is_string_ill_formed(StepLexeme)
                 /\ Len(step.corrected.s) >= 2
                 /\ step.corrected.s[1] = step.corrected.s[Len(step.corrected.s)])
        => LET s == step.corrected.s
           IN  /\ pc # "raised"
               /\ idx = step.pos + 1
               /\ Len(tokens) >= 1
               /\ tokens[Len(tokens)].name = TT_lit
               /\ tokens[Len(tokens)].value = SubSeq(s, 2, Len(s) - 1)

\* C4: for a panic-mode error at position k, recover returns the first
\* position after k that holds ';' and is not the last one, provided the
\* sequence has more than one ';', and None otherwise; also when the same
\* lexeme text occurs before k.
C4_PanicTarget ==
    (OnErrorPath /\ Err_is_other_error(StepLexeme))
        => step.corrected = PanicTarget(lexemes, step.pos)

\* C5: recover takes the panic-mode branch exactly when detect reported
\* IdentifierTooLong, NumericRangeExceeded or IllFormedNumber; a lexeme
\* reported as IllFormedString always gets the quote repair.
C5_ModeAgreesWithKind ==
    OnErrorPath
        => /\ (step.corrected.kind # "str")
                <=> step.error_type \in {ET_id_too_long, ET_num_range,
                                         ET_num_ill_formed}
           /\ step.error_type = ET_string
                => /\ step.corrected.kind = "str"
                   /\ step.corrected.s = recover_string(StepLexeme)

\* C6: a lexeme matching the identifier pattern gets an Identifier token
\* exactly when it is no keyword, more than one edit away from every
\* keyword, and shorter than MAX_ID_LENGTH.
C6_IdentifierIff ==
    [][ (InLoop /\ MatchesIdPattern(Cur))
          => ((tokens' = Append(tokens, Token(TT_id, Cur)))
                <=> AcceptableIdentifier(Cur)) ]_vars

C6_Witness ==
    /\ step.branch = "identifier"
    /\ MatchesIdPattern(StepLexeme)
    /\ AcceptableIdentifier(StepLexeme)
    /\ tokens[Len(tokens)] = Token(TT_id, StepLexeme)

\* C7, as claimed: scanning "calss x" sends calss to the error path and the
\* token emitted for it is Keyword class.
C7_CalssBecomesClass ==
    (text = CalssX /\ idx >= 1)
        => /\ Len(tokens) >= 1
           /\ tokens[1].name = TT_kw
           /\ tokens[1].value = Class

\* C7, amended: calss is two edits away from class, so scanning "calss x"
\* takes calss as an identifier: it never reaches the error path, and the
\* scan returns Identifier calss, Identifier x.  recover, which is not
\* called, would turn calss into class.
C7_CalssIsIdentifier ==
    text = CalssX
        => /\ pc # "raised"
           /\ pc # "start" => recover(Calss, lexemes) = { RStr(Class) }
           /\ ~OnErrorPath
           /\ idx >= 1 => tokens[1] = Token(TT_id, Calss)
           /\ pc = "done"
                => tokens = << Token(TT_id, Calss), Token(TT_id, <<"x">>) >>

C7_Witness ==
    /\ text = CalssX
    /\ pc = "done"
    /\ Len(tokens) = 2

\* C8: a lexeme of the shape identifier ( arguments ) yields Identifier(name),
\* Separator "(", at most one parameter token for the whole argument text,
\* Separator ")": three tokens when the argument text has no parameter type,
\* four otherwise.
C8_FuncCallTokens ==
    [][ (InLoop /\ FuncCallShape(Cur))
          => LET n   == Len(tokens') - Len(tokens)
                 new == SubSeq(tokens', Len(tokens) + 1, Len(tokens'))
             IN  /\ SubSeq(tokens', 1, Len(tokens)) = tokens
                 /\ idx' = idx + 1
                 /\ n \in {3, 4}
                 /\ new[1] = Token(TT_id, ShapeName(Cur))
                 /\ new[2] = Token(TT_sepr, <<"(">>)
                 /\ new[n] = Token(TT_sepr, <<")">>)
                 /\ n = 4 => IsParamTokenFor(new[3], ShapeArgs(Cur))
                 /\ n = 3 <=> NoParamType(ShapeArgs(Cur)) ]_vars

C8_Witness ==
    /\ step.branch = "func_call"
    /\ FuncCallShape(StepLexeme)
    /\ Len(tokens) = 4
    /\ tokens[3].name = TT_int_op

\* C9: every Integer operand token carries a value within
\* [MIN_INT, MAX_INT].
C9_IntegerTokensInRange ==
    \A k \in 1..Len(tokens) :
        tokens[k].name = TT_int_op
            => (tokens[k].value >= MIN_INT /\ tokens[k].value <= MAX_INT)

\* C10: every Identifier token, the name token of a function call included,
\* carries a value that is no keyword, more than one edit away from every
\* keyword, and shorter than 15 characters.
C10_IdentifierTokensAcceptable ==
    \A k \in 1..Len(tokens) :
        tokens[k].name = TT_id => AcceptableIdentifier(tokens[k].value)

============================================================================
